---- MODULE Spec2Model ----
(***************************************************************************)
(* Model of the resume analyzer: the text extractor (lib/text_processor),  *)
(* the prompt loader (utils/prompt_loader), the inference client           *)
(* (lib/groq_handler, utils/config), the resume analyzer                   *)
(* (lib/resume_analyzer) and the request handler main() (main/app.py).     *)
(* Strings are sequences of one-character strings.                        *)
(***************************************************************************)
EXTENDS Integers, Sequences, FiniteSets, TLC

\* ------------------------------------------------------------------ bounds
MaxUnits == 2
MaxTextLen == 1
MaxCalls == 2
MaxTemplateLen == 2
MaxContentLen == 3
MaxRequests == 2
MaxSessions == 2
MaxRuns == 1

\* ----------------------------------------------------------------- strings
NL == "\n"
SP == " "
Whitespace == {NL, SP}

Str(n, alphabet) == UNION {[1..k -> alphabet] : k \in 0..n}

Pdf == <<"p", "d", "f">>
Docx == <<"d", "o", "c", "x">>
PdfUpper == <<"P", "D", "F">>
Txt == <<"t", "x", "t">>

\* str.join: the elements of seq with sep between consecutive ones
RECURSIVE Join(_, _)
Join(sep, seq) ==
    IF seq = <<>> THEN <<>>
    ELSE IF Len(seq) = 1 THEN seq[1]
    ELSE seq[1] \o sep \o Join(sep, Tail(seq))

\* =========================================================================
\* Text extractor (lib/text_processor.py)
\* =========================================================================
VARIABLES
    file,       \* the document at file_path: exists, kind, units, badPage
    ext,        \* the file_extension argument of the current call
    xpc,        \* position of the current extract_text call
    page,       \* index of the next page the comprehension reads
    acc,        \* page texts collected so far
    result,     \* the value returned by the call
    openDocs,   \* number of fitz documents opened and not closed
    opens,      \* number of times the current call opened the file
    calls       \* number of calls started

xvars == <<file, ext, xpc, page, acc, result, openDocs, opens, calls>>

\* Prompt loader (utils/prompt_loader.py)
VARIABLES
    promptsFile, \* the JSON file at prompts_file: exists, content
    prompts,     \* self.prompts, the loaded map
    pkey,        \* the prompt_key argument of the current get_prompt call
    pkwargs,     \* the **kwargs of the current call
    ppc,         \* position of the loader
    presult,     \* the value returned by get_prompt
    pcalls       \* number of get_prompt calls started

pvars == <<promptsFile, prompts, pkey, pkwargs, ppc, presult, pcalls>>

\* Inference client and resume analyzer (utils/config.py, lib/groq_handler.py,
\* lib/resume_analyzer.py)
VARIABLES
    apiKey,         \* Config.GROQ_API_KEY: None, "" or a key
    handler,        \* the GroqHandler instance: its client's api_key, if built
    ctorOutcome,    \* how GroqHandler() ended: "none" (not called), "ok", "ValueError"
    iprompts,       \* the map of the analyzer's prompt loader
    ipc,            \* position of the current analyze_resume invocation
    itext,          \* its text argument
    iargs,          \* its designation, experience and domain arguments
    iprompt,        \* the prompt get_prompt returned
    invRequests,    \* the requests this invocation handed to the transport
    transportCalls, \* number of requests the transport has received in all
    iresp,          \* the response of the transport
    iresult,        \* the value analyze_resume returned
    icalls          \* number of invocations started

ivars == <<apiKey, handler, ctorOutcome, iprompts, ipc, itext, iargs, iprompt,
           invRequests, transportCalls, iresp, iresult, icalls>>

\* Request handler (main/app.py)
VARIABLES
    active,       \* the sessions running main()
    env,          \* the deployment: credential, prompt map, what the API answers
    fs,           \* the working directory: temp path -> file
    req,          \* per session: position in main() and its locals
    interference  \* what one session did to another's temp file

mvars == <<active, env, fs, req, interference>>

\* ---- the components at rest: the value of a component's variables while
\* another component is the one being exercised
NoValue == [none |-> TRUE, value |-> <<>>]
Some(v) == [none |-> FALSE, value |-> v]

PIdle ==
    /\ promptsFile = [exists |-> FALSE, content |-> <<>>]
    /\ prompts = <<>>
    /\ pkey = "resume_analysis"
    /\ pkwargs = <<>>
    /\ ppc = "idle"
    /\ presult = NoValue
    /\ pcalls = 0

XIdle ==
    /\ file = [exists |-> FALSE, kind |-> Pdf, units |-> <<>>, badPage |-> 0]
    /\ ext = <<>>
    /\ xpc = "idle"
    /\ page = 1
    /\ acc = <<>>
    /\ result = <<>>
    /\ openDocs = 0
    /\ opens = 0
    /\ calls = 0

NoResponse == [received |-> FALSE, choices |-> <<>>]

IIdle ==
    /\ apiKey = NoValue
    /\ handler = NoValue
    /\ ctorOutcome = "none"
    /\ iprompts = <<>>
    /\ ipc = "idle"
    /\ itext = <<>>
    /\ iargs = <<>>
    /\ iprompt = <<>>
    /\ invRequests = <<>>
    /\ transportCalls = 0
    /\ iresp = NoResponse
    /\ iresult = NoValue
    /\ icalls = 0

MIdle ==
    /\ active = {}
    /\ env = <<>>
    /\ fs = <<>>
    /\ req = <<>>
    /\ interference = {}

vars == <<xvars, pvars, ivars, mvars>>
NotExtractor == <<pvars, ivars, mvars>>
NotLoader == <<xvars, ivars, mvars>>
NotInference == <<xvars, pvars, mvars>>
NotMain == <<xvars, pvars, ivars>>

ExtChoices == {Pdf, Docx, PdfUpper, Txt, <<>>}
TextAlphabet == {"a", NL}
UnitTexts == Str(MaxTextLen, TextAlphabet)
UnitSeqs == UNION {[1..k -> UnitTexts] : k \in 0..MaxUnits}

\* A document on disk. units are its pages (pdf) or paragraphs (docx);
\* badPage is the page whose get_text raises (0: none does).
Files ==
    {[exists |-> e, kind |-> k, units |-> u, badPage |-> b] :
        e \in BOOLEAN, k \in {Pdf, Docx}, u \in UnitSeqs, b \in 0..MaxUnits}

FilesOK == {f \in Files : f.badPage <= Len(f.units) /\ (f.kind = Docx => f.badPage = 0)}

\* fitz.open(pdf_path) succeeds on an existing, well-formed PDF
FitzOpens(f) == f.exists /\ f.kind = Pdf
\* Document(docx_path) succeeds on an existing, well-formed DOCX
DocumentOpens(f) == f.exists /\ f.kind = Docx

XInit ==
    /\ file \in FilesOK
    /\ ext \in ExtChoices
    /\ xpc = "call"
    /\ page = 1
    /\ acc = <<>>
    /\ result = <<>>
    /\ openDocs = 0
    /\ opens = 0
    /\ calls = 1
    /\ PIdle
    /\ IIdle
    /\ MIdle

\* extract_text: dispatch on the extension, compared as given
extract_text ==
    /\ xpc = "call"
    /\ IF ext = Pdf THEN xpc' = "pdf_open" /\ result' = result
       ELSE IF ext = Docx THEN xpc' = "docx_open" /\ result' = result
       ELSE xpc' = "returned" /\ result' = <<>>
    /\ UNCHANGED <<file, ext, page, acc, openDocs, opens, calls>>
    /\ UNCHANGED NotExtractor

\* extract_text_from_pdf, line 22: doc = fitz.open(pdf_path)
pdf_open ==
    /\ xpc = "pdf_open"
    /\ IF FitzOpens(file)
       THEN /\ xpc' = "pdf_pages"
            /\ openDocs' = openDocs + 1
            /\ opens' = opens + 1
       ELSE /\ xpc' = "raised"
            /\ UNCHANGED <<openDocs, opens>>
    /\ page' = 1
    /\ acc' = <<>>
    /\ UNCHANGED <<file, ext, result, calls>>
    /\ UNCHANGED NotExtractor

\* Where the page loop goes when page.get_text raises: the exception leaves
\* extract_text_from_pdf at line 24; line 26 (doc.close()) is not executed.
PdfOnPageError == [pc |-> "raised", close |-> FALSE]

\* extract_text_from_pdf, line 24: one iteration of the comprehension
pdf_get_text ==
    /\ xpc = "pdf_pages"
    /\ page <= Len(file.units)
    /\ IF page = file.badPage
       THEN /\ xpc' = PdfOnPageError.pc
            /\ openDocs' = IF PdfOnPageError.close THEN openDocs - 1 ELSE openDocs
            /\ UNCHANGED <<page, acc>>
       ELSE /\ acc' = Append(acc, file.units[page])
            /\ page' = page + 1
            /\ UNCHANGED <<xpc, openDocs>>
    /\ UNCHANGED <<file, ext, result, opens, calls>>
    /\ UNCHANGED NotExtractor

UnitSeparatorSpace == <<SP>>

\* the separator of line 24 and line 41
UnitSeparator == <<NL>>

\* extract_text_from_pdf, lines 24-27: join, doc.close(), return text
pdf_close ==
    /\ xpc = "pdf_pages"
    /\ page > Len(file.units)
    /\ result' = Join(UnitSeparator, acc)
    /\ openDocs' = openDocs - 1
    /\ xpc' = "returned"
    /\ UNCHANGED <<file, ext, page, acc, opens, calls>>
    /\ UNCHANGED NotExtractor

\* extract_text_from_docx: Document(docx_path) reads the package and keeps
\* no handle open; the paragraphs are joined in document order
extract_text_from_docx ==
    /\ xpc = "docx_open"
    /\ IF DocumentOpens(file)
       THEN /\ xpc' = "returned"
            /\ result' = Join(UnitSeparator, file.units)
            /\ opens' = opens + 1
       ELSE /\ xpc' = "raised"
            /\ UNCHANGED <<result, opens>>
    /\ UNCHANGED <<file, ext, page, acc, openDocs, calls>>
    /\ UNCHANGED NotExtractor

\* the caller calls extract_text again on the same path, with any extension
NextCall ==
    /\ xpc \in {"returned", "raised"}
    /\ calls < MaxCalls
    /\ calls' = calls + 1
    /\ ext' \in ExtChoices
    /\ xpc' = "call"
    /\ page' = 1
    /\ acc' = <<>>
    /\ result' = <<>>
    /\ opens' = 0
    /\ UNCHANGED <<file, openDocs>>
    /\ UNCHANGED NotExtractor

XNext ==
    \/ extract_text
    \/ pdf_open
    \/ pdf_get_text
    \/ pdf_close
    \/ extract_text_from_docx
    \/ NextCall

SpecExtract == XInit /\ [][XNext]_vars

\* ---- properties of the text extractor

\* start of unit i in the joined text (0-based): the units before it, each
\* followed by one separator character
RECURSIVE UnitOffset(_, _)
UnitOffset(units, i) ==
    IF i = 1 THEN 0 ELSE UnitOffset(units, i - 1) + Len(units[i - 1]) + 1

\* res holds the units in order, each at its offset, a newline between
\* consecutive units, and nothing else
IsNewlineJoin(res, units) ==
    IF units = <<>> THEN res = <<>>
    ELSE
        /\ Len(res) = UnitOffset(units, Len(units)) + Len(units[Len(units)])
        /\ \A i \in 1..Len(units) :
            /\ \A j \in 1..Len(units[i]) : res[UnitOffset(units, i) + j] = units[i][j]
            /\ i < Len(units) => res[UnitOffset(units, i) + Len(units[i]) + 1] = NL

XFinished == xpc \in {"returned", "raised"}

\* C2: once extract_text_from_pdf has returned or raised after a successful
\* open, the document is closed: no fitz document stays open after a call,
\* whatever page fails to be read.
C2_PdfAlwaysClosed == XFinished => openDocs = 0

\* C4: extract_text returns the page texts joined by newlines for "pdf",
\* the paragraph texts joined by newlines for "docx", and for every other
\* extension (other letter cases included) the empty string, without
\* opening the file and without raising, also when the path is missing.
C4_ExtractText ==
    /\ (ext = Pdf /\ xpc = "returned") => IsNewlineJoin(result, file.units)
    /\ (ext = Pdf /\ XFinished /\ FitzOpens(file) /\ file.badPage = 0) => xpc = "returned"
    /\ (ext = Docx /\ xpc = "returned") => IsNewlineJoin(result, file.units)
    /\ (ext = Docx /\ XFinished /\ DocumentOpens(file)) => xpc = "returned"
    /\ ext \notin {Pdf, Docx} =>
        /\ xpc \in {"call", "returned"}
        /\ opens = 0
        /\ xpc = "returned" => result = <<>>

\* a two-page PDF with text on both pages has been extracted
C4_Witness ==
    /\ xpc = "returned"
    /\ ext = Pdf
    /\ Len(file.units) = 2
    /\ file.units[1] # <<>>
    /\ file.units[2] # <<>>

\* =========================================================================
\* Prompt loader (utils/prompt_loader.py)
\* =========================================================================
\* A template is a sequence of tokens: a literal character, or a {name}
\* replacement field.
Lit(c) == [ph |-> FALSE, s |-> c]
Ph(n) == [ph |-> TRUE, s |-> n]

ParamNames == {"designation", "experience", "domain"}
FieldNames == ParamNames \cup {"level"}
Tokens == {Lit("R")} \cup {Ph(n) : n \in FieldNames}
Templates == UNION {[1..k -> Tokens] : k \in 0..MaxTemplateLen}

\* the names of the replacement fields of a template
Placeholders(t) == {t[i].s : i \in {j \in 1..Len(t) : t[j].ph}}

\* the values the UI or a caller binds to the names
ArgValue(n) ==
    CASE n = "designation" -> <<"D", "S">>
      [] n = "experience" -> <<"<", "1">>
      [] n = "domain" -> <<"F">>
      [] OTHER -> <<"L">>

KwargsOf(S) == [n \in S |-> ArgValue(n)]
KwargsChoices == {KwargsOf(S) : S \in SUBSET FieldNames}

\* an entry of the JSON object: a dictionary that may hold "template"
Entries == {<<>>} \cup {[template |-> t] : t \in Templates}
HasTemplate(e) == e # <<>>

\* the JSON object: prompt key -> entry
PromptKeys == {"resume_analysis", "summary"}
SummaryEntry == [template |-> <<Lit("S"), Ph("level")>>]
MapOf(K, e) == [k \in K |-> IF k = "summary" THEN SummaryEntry ELSE e]
PromptMaps ==
    {MapOf(K, e) : K \in SUBSET PromptKeys, e \in Entries}

\* str.format(**kwargs) leaving a field without a value verbatim
RECURSIVE FormatLenient(_, _)
FormatLenient(t, kw) ==
    IF t = <<>> THEN [raised |-> FALSE, text |-> <<>>]
    ELSE LET rest == FormatLenient(Tail(t), kw)
             head == IF ~t[1].ph THEN <<t[1].s>>
                     ELSE IF t[1].s \in DOMAIN kw THEN kw[t[1].s]
                     ELSE <<"{", t[1].s, "}">>
         IN [raised |-> FALSE, text |-> head \o rest.text]

\* str.format(**kwargs), line 19: every replacement field is looked up in
\* kwargs (KeyError when it is missing); names kwargs holds beyond the
\* template's fields are not looked at
RECURSIVE Format(_, _)
Format(t, kw) ==
    IF t = <<>> THEN [raised |-> FALSE, text |-> <<>>]
    ELSE IF t[1].ph /\ t[1].s \notin DOMAIN kw THEN [raised |-> TRUE, text |-> <<>>]
    ELSE LET rest == Format(Tail(t), kw)
             head == IF t[1].ph THEN kw[t[1].s] ELSE <<t[1].s>>
         IN IF rest.raised THEN rest
            ELSE [raised |-> FALSE, text |-> head \o rest.text]

\* get_prompt, lines 18-19
GetPrompt(map, key, kw) ==
    IF key \notin DOMAIN map THEN [raised |-> TRUE, text |-> <<>>]
    ELSE IF ~HasTemplate(map[key]) THEN [raised |-> TRUE, text |-> <<>>]
    ELSE Format(map[key].template, kw)

PInit ==
    /\ promptsFile \in
        {[exists |-> FALSE, content |-> <<>>]}
        \cup {[exists |-> TRUE, content |-> m] : m \in PromptMaps}
    /\ prompts = <<>>
    /\ pkey \in PromptKeys
    /\ pkwargs \in KwargsChoices
    /\ ppc = "new"
    /\ presult = NoValue
    /\ pcalls = 1
    /\ XIdle
    /\ IIdle
    /\ MIdle

\* PromptLoader.__init__ and _load_prompts: open() raises on a missing file
PromptLoader_init ==
    /\ ppc = "new"
    /\ IF promptsFile.exists
       THEN prompts' = promptsFile.content /\ ppc' = "call"
       ELSE prompts' = prompts /\ ppc' = "load_failed"
    /\ UNCHANGED <<promptsFile, pkey, pkwargs, presult, pcalls>>
    /\ UNCHANGED NotLoader

\* get_prompt(prompt_key, **kwargs)
get_prompt ==
    /\ ppc = "call"
    /\ LET r == GetPrompt(prompts, pkey, pkwargs)
       IN IF r.raised
          THEN ppc' = "raised" /\ presult' = NoValue
          ELSE ppc' = "returned" /\ presult' = Some(r.text)
    /\ UNCHANGED <<promptsFile, prompts, pkey, pkwargs, pcalls>>
    /\ UNCHANGED NotLoader

\* the caller asks the same loader for another prompt
PNextCall ==
    /\ ppc \in {"returned", "raised"}
    /\ pcalls < MaxCalls
    /\ pcalls' = pcalls + 1
    /\ pkey' \in PromptKeys
    /\ pkwargs' \in KwargsChoices
    /\ ppc' = "call"
    /\ presult' = NoValue
    /\ UNCHANGED <<promptsFile, prompts>>
    /\ UNCHANGED NotLoader

PNext ==
    \/ PromptLoader_init
    \/ get_prompt
    \/ PNextCall

SpecPrompt == PInit /\ [][PNext]_vars

\* ---- properties of the prompt loader

PFinished == ppc \in {"returned", "raised"}
PTemplateFound == pkey \in DOMAIN prompts /\ HasTemplate(prompts[pkey])

\* C5 (as claimed): get_prompt returns text only when the key is in the map
\* and the template's placeholders are exactly the supplied names; any
\* mismatch in either direction, or an absent key, is a failure with no text.
C5_ExactMatchOrFail ==
    /\ ppc = "returned" =>
        /\ PTemplateFound
        /\ Placeholders(prompts[pkey].template) = DOMAIN pkwargs
    /\ ppc = "raised" => presult = NoValue

\* C5 (amended): get_prompt returns text exactly when the key is in the map
\* (with a template) and every placeholder of the template has a supplied
\* value; supplied names the template does not reference are ignored. An
\* absent key or a placeholder without a value is a failure with no text,
\* and returned text holds no unresolved placeholder.
C5_PlaceholdersBoundOrFail ==
    PFinished =>
        /\ ppc = "returned" <=>
            (PTemplateFound /\ Placeholders(prompts[pkey].template) \subseteq DOMAIN pkwargs)
        /\ ppc = "raised" => presult = NoValue
        /\ ppc = "returned" =>
            /\ ~presult.none
            /\ \A i \in 1..Len(presult.value) : presult.value[i] \notin {"{", "}"}

\* a call that supplies a name the template does not use, and returns text
C5_Witness ==
    /\ ppc = "returned"
    /\ Placeholders(prompts[pkey].template) # {}
    /\ DOMAIN pkwargs \ Placeholders(prompts[pkey].template) # {}

\* =========================================================================
\* Configuration, inference client, resume analyzer
\* =========================================================================
DefaultModel == "gemma2-9b-it"
DefaultMaxTokens == 2000
ResumeMaxTokens == 1500

\* `not Config.GROQ_API_KEY` with only None treated as missing
ConfigMissingNoneOnly(k) == k.none

\* Config.validate, line 21: `not Config.GROQ_API_KEY` holds for None and ""
ConfigMissing(k) == k.none \/ k.value = <<>>

ApiKeys == {NoValue, Some(<<>>), Some(<<"k">>)}

\* str.strip(): leading and trailing whitespace removed
RECURSIVE LStrip(_)
LStrip(s) == IF s # <<>> /\ s[1] \in Whitespace THEN LStrip(Tail(s)) ELSE s
RECURSIVE RStrip(_)
RStrip(s) ==
    IF s # <<>> /\ s[Len(s)] \in Whitespace THEN RStrip(SubSeq(s, 1, Len(s) - 1)) ELSE s
Strip(s) == RStrip(LStrip(s))

\* the templates the analyzer may find under "resume_analysis"
ResumeTemplate ==
    <<Lit("R"), Ph("designation"), Lit(SP), Ph("experience"), Ph("domain")>>
AnalyzerMaps ==
    { [resume_analysis |-> [template |-> ResumeTemplate]],
      [summary |-> SummaryEntry],
      [resume_analysis |-> [template |-> <<Lit("R"), Ph("level")>>]] }

Designations == {<<"D", "S">>, <<"D", "A">>}
Experiences == {<<"F">>, <<"<", "1">>}
Domains == {<<"F">>, <<"H">>}
ResumeTexts == Str(MaxTextLen, TextAlphabet)

\* what the transport may answer: a list of choices, each with a message
\* content that is a string or None
ContentAlphabet == {"a", SP}
Contents == {NoValue} \cup {Some(c) : c \in Str(MaxContentLen, ContentAlphabet)}
Choice(c) == [content |-> c]
Response(cs) == [received |-> TRUE, choices |-> cs]
Responses ==
    {Response(<<>>)}
    \cup {Response(<<Choice(c)>>) : c \in Contents}
    \cup {Response(<<Choice(c), Choice(Some(<<"z">>))>>) : c \in Contents}

IInit ==
    /\ apiKey \in ApiKeys
    /\ handler = NoValue
    /\ ctorOutcome = "none"
    /\ iprompts \in AnalyzerMaps
    /\ ipc = "new"
    /\ itext = <<>>
    /\ iargs = <<>>
    /\ iprompt = <<>>
    /\ invRequests = <<>>
    /\ transportCalls = 0
    /\ iresp = NoResponse
    /\ iresult = NoValue
    /\ icalls = 0
    /\ XIdle
    /\ PIdle
    /\ MIdle

\* GroqHandler.__init__: Config.validate() raises ValueError before the
\* client is built; a constructor that raises yields no instance
GroqHandler_init ==
    /\ ipc = "new"
    /\ IF ConfigMissing(apiKey)
       THEN /\ ctorOutcome' = "ValueError"
            /\ handler' = NoValue
            /\ ipc' = "no_handler"
       ELSE /\ ctorOutcome' = "ok"
            /\ handler' = Some(apiKey.value)
            /\ ipc' = "idle"
    /\ UNCHANGED <<apiKey, iprompts, itext, iargs, iprompt, invRequests,
                   transportCalls, iresp, iresult, icalls>>
    /\ UNCHANGED NotInference

\* analyze_resume, lines 9-14: the prompt is resolved first; an exception of
\* get_prompt leaves analyze_resume
analyze_resume ==
    /\ ipc = "idle"
    /\ ~handler.none
    /\ icalls < MaxCalls
    /\ icalls' = icalls + 1
    /\ \E t \in ResumeTexts, d \in Designations, e \in Experiences, m \in Domains :
        /\ itext' = t
        /\ iargs' = [designation |-> d, experience |-> e, domain |-> m]
    /\ LET r == GetPrompt(iprompts, "resume_analysis", iargs')
       IN IF r.raised
          THEN ipc' = "raised" /\ iprompt' = <<>>
          ELSE ipc' = "analyze_text" /\ iprompt' = r.text
    /\ invRequests' = <<>>
    /\ iresp' = NoResponse
    /\ iresult' = NoValue
    /\ UNCHANGED <<apiKey, handler, ctorOutcome, iprompts, transportCalls>>
    /\ UNCHANGED NotInference

MessageContentOneNewline(prompt, text) == prompt \o <<NL>> \o text

\* analyze_text, line 32: prompt + "\n\n" + text
MessageContent(prompt, text) == prompt \o <<NL, NL>> \o text

\* analyze_text, lines 31-35: the request handed to the client
ChatRequest(prompt, text, model, max_tokens) ==
    [ messages |-> <<[role |-> "user", content |-> MessageContent(prompt, text)]>>,
      model |-> model,
      max_tokens |-> max_tokens ]

TransportErrorRetry == "analyze_text"

\* analyze_text has no try/except around the request: a transport error
\* leaves analyze_text and analyze_resume
TransportErrorNext == "raised"

\* analyze_resume line 15 calling analyze_text with max_tokens=1500 and the
\* default model; analyze_text lines 31-35: the blocking request, which the
\* transport answers or fails
analyze_text_request ==
    /\ ipc = "analyze_text"
    /\ Len(invRequests) < MaxRequests
    /\ invRequests' =
        Append(invRequests, ChatRequest(iprompt, itext, DefaultModel, ResumeMaxTokens))
    /\ transportCalls' = transportCalls + 1
    /\ \/ /\ ipc' = TransportErrorNext
          /\ iresp' = NoResponse
       \/ /\ ipc' = "response"
          /\ iresp' \in Responses
    /\ UNCHANGED <<apiKey, handler, ctorOutcome, iprompts, itext, iargs, iprompt,
                   iresult, icalls>>
    /\ UNCHANGED NotInference

\* the str.strip() of line 37
ContentStrip(c) == Strip(c)

\* analyze_text, line 37: response.choices[0].message.content.strip();
\* IndexError on an empty list, AttributeError on a None content
analyze_text_return ==
    /\ ipc = "response"
    /\ IF iresp.choices = <<>> \/ iresp.choices[1].content.none
       THEN /\ ipc' = "raised"
            /\ iresult' = NoValue
       ELSE /\ ipc' = "returned"
            /\ iresult' = Some(ContentStrip(iresp.choices[1].content.value))
    /\ UNCHANGED <<apiKey, handler, ctorOutcome, iprompts, itext, iargs, iprompt,
                   invRequests, transportCalls, iresp, icalls>>
    /\ UNCHANGED NotInference

\* the caller makes another analyze_resume call on the same analyzer
INextCall ==
    /\ ipc \in {"returned", "raised"}
    /\ icalls < MaxCalls
    /\ ipc' = "idle"
    /\ UNCHANGED <<apiKey, handler, ctorOutcome, iprompts, itext, iargs, iprompt,
                   invRequests, transportCalls, iresp, iresult, icalls>>
    /\ UNCHANGED NotInference

INext ==
    \/ GroqHandler_init
    \/ analyze_resume
    \/ analyze_text_request
    \/ analyze_text_return
    \/ INextCall

SpecInfer == IInit /\ [][INext]_vars

\* ---- properties of the inference client and the analyzer

\* C3: with GROQ_API_KEY absent or empty, GroqHandler() fails with the
\* configuration error at construction, no handler exists, and the transport
\* never receives a request.
C3_NoCallWithoutCredential ==
    (apiKey.none \/ apiKey.value = <<>>) =>
        /\ handler.none
        /\ ctorOutcome \in {"none", "ValueError"}
        /\ ipc = "no_handler" <=> ctorOutcome = "ValueError"
        /\ transportCalls = 0
        /\ invRequests = <<>>

\* construction was attempted with the empty string as the credential
C3_Witness ==
    /\ apiKey = Some(<<>>)
    /\ ctorOutcome = "ValueError"
    /\ ipc = "no_handler"

\* the "resume_analysis" template with the three values in place
ExpectedPrompt == <<"R">> \o iargs.designation \o <<SP>> \o iargs.experience \o iargs.domain

\* r is c with nothing but whitespace cut from both ends, and as much of it
\* as there is
IsStripped(r, c) ==
    /\ r # <<>> => r[1] \notin Whitespace /\ r[Len(r)] \notin Whitespace
    /\ \E i \in 1..(Len(c) + 1) :
        /\ i + Len(r) - 1 <= Len(c)
        /\ r = SubSeq(c, i, i + Len(r) - 1)
        /\ \A j \in 1..Len(c) : (j < i \/ j > i + Len(r) - 1) => c[j] \in Whitespace

\* C6: a successful analyze_resume has sent exactly one request, of one
\* user-role message whose content is the substituted "resume_analysis"
\* template, a blank line, and the text; with max_tokens 1500 and the default
\* model; and returns the first choice's content stripped of whitespace.
C6_RequestAndResult ==
    ipc = "returned" =>
        /\ Len(invRequests) = 1
        /\ Len(invRequests[1].messages) = 1
        /\ invRequests[1].messages[1].role = "user"
        /\ invRequests[1].messages[1].content = ExpectedPrompt \o <<NL>> \o <<NL>> \o itext
        /\ invRequests[1].max_tokens = 1500
        /\ invRequests[1].model = "gemma2-9b-it"
        /\ ~iresult.none
        /\ IsStripped(iresult.value, iresp.choices[1].content.value)

\* a completion with whitespace on both sides of its text came back first
\* of two choices
C6_Witness ==
    /\ ipc = "returned"
    /\ Len(iresp.choices) = 2
    /\ iresp.choices[1].content.value = <<SP, "a", SP>>
    /\ itext # <<>>

IPromptResolves == ~GetPrompt(iprompts, "resume_analysis", iargs).raised
IMalformed == iresp.received /\ (iresp.choices = <<>> \/ iresp.choices[1].content.none)

\* C7: an analyze_resume invocation makes at most one request: none when the
\* prompt does not resolve, exactly one otherwise; a failed request or a
\* malformed response ends the invocation with the error, without a retry
\* and without a value in place of the result.
C7_AtMostOneCall ==
    /\ Len(invRequests) <= 1
    /\ ipc \in {"returned", "raised"} =>
        /\ Len(invRequests) = (IF IPromptResolves THEN 1 ELSE 0)
        /\ ~IPromptResolves => ipc = "raised"
        /\ (IPromptResolves /\ IMalformed) => (ipc = "raised" /\ iresult.none)
        /\ ipc = "raised" => iresult.none

\* the transport answered with no choices and the invocation ended in error
C7_Witness ==
    /\ ipc = "raised"
    /\ iresp = Response(<<>>)
    /\ Len(invRequests) = 1
    /\ transportCalls = 1
    /\ iresult.none

\* =========================================================================
\* Request handler main() (main/app.py)
\* =========================================================================
Sessions == 1..MaxSessions

\* str.lower() on the characters an extension may hold
LowerChar(c) ==
    CASE c = "P" -> "p"
      [] c = "D" -> "d"
      [] c = "F" -> "f"
      [] OTHER -> c
Lower(s) == [i \in 1..Len(s) |-> LowerChar(s[i])]

\* name.split(".")[-1]: what follows the last dot, the whole name without one
RECURSIVE SplitLast(_)
SplitLast(name) ==
    IF \A i \in 1..Len(name) : name[i] # "." THEN name
    ELSE SplitLast(Tail(name))

\* line 43 and line 44
FileExtension(name) == Lower(SplitLast(name))
TempPath(e) == <<"temp_resume", ".">> \o e
TempPaths == {TempPath(Pdf), TempPath(Docx)}

\* what the uploader (type=["pdf", "docx"]) lets through
UploadNames ==
    { <<"r", ".">> \o Pdf, <<"r", ".">> \o PdfUpper, <<"r", ".">> \o Docx,
      <<"r", ".", "v", ".">> \o Pdf }
TextDoc(k) == [kind |-> k, units |-> <<<<"a">>, <<"b">>>>, badPage |-> 0]
ScannedPdf == [kind |-> Pdf, units |-> <<<<>>>>, badPage |-> 0]
EmptyDoc == [kind |-> Txt, units |-> <<>>, badPage |-> 0]
UploadDocs == {TextDoc(Pdf), TextDoc(Docx), ScannedPdf}

Absent == [exists |-> FALSE, owner |-> 0, doc |-> EmptyDoc]
Present(r, d) == [exists |-> TRUE, owner |-> r, doc |-> d]
FileOf(e) ==
    [exists |-> e.exists, kind |-> e.doc.kind, units |-> e.doc.units,
     badPage |-> e.doc.badPage]

\* the selectboxes at their first option
Selection == [designation |-> <<"D", "S">>, experience |-> <<"F">>, domain |-> <<"F">>]

Completion == <<SP, "o", "k", NL>>
MainReplies == {NoResponse, Response(<<>>), Response(<<Choice(Some(Completion))>>)}
MainPromptMaps ==
    {[resume_analysis |-> [template |-> ResumeTemplate]], [summary |-> SummaryEntry]}
Envs == {[apiKey |-> k, prompts |-> m, reply |-> a] :
            k \in ApiKeys, m \in MainPromptMaps, a \in MainReplies}

NewRequest ==
    [pc |-> "idle", name |-> <<>>, doc |-> EmptyDoc, ext |-> <<>>, raisedAt |-> "none",
     exc |-> "none", error |-> <<>>, extracted |-> NoValue, shown |-> NoValue, runs |-> 0]

MInitFor(S, E) ==
    /\ active = S
    /\ env \in E
    /\ fs = [p \in TempPaths |-> Absent]
    /\ req = [r \in S |-> NewRequest]
    /\ interference = {}
    /\ XIdle
    /\ PIdle
    /\ IIdle

\* ---- the callables main() uses, as lib/ and utils/ define them
\* number of parameters besides self, and number of arguments main() passes
TextProcessorParams == 0
TextProcessorArgs == 1
PromptLoaderParams == 1
PromptLoaderArgs == 2
GroqHandlerParams == 0
GroqHandlerArgs == 2
ResumeAnalyzerParams == 2
ResumeAnalyzerArgs == 3

\* a call of a function without defaults or *args succeeds only with as many
\* arguments as parameters; otherwise it raises TypeError
CallOK(params, args) == args = params

\* the attributes class Config defines
ConfigAttributes == {"GROQ_API_KEY", "validate"}

\* extract_text as a function of the file at the path
ExtractOutcome(f, e) ==
    IF e = Pdf
    THEN IF FitzOpens(f) /\ f.badPage = 0
         THEN [raised |-> FALSE, text |-> Join(UnitSeparator, f.units)]
         ELSE [raised |-> TRUE, text |-> <<>>]
    ELSE IF e = Docx
    THEN IF DocumentOpens(f)
         THEN [raised |-> FALSE, text |-> Join(UnitSeparator, f.units)]
         ELSE [raised |-> TRUE, text |-> <<>>]
    ELSE [raised |-> FALSE, text |-> <<>>]

\* lines 52-53, in evaluation order: the first thing that raises
ConstructClientsError(e) ==
    IF "PROMPTS_FILE" \notin ConfigAttributes THEN "AttributeError"
    ELSE IF ~CallOK(PromptLoaderParams, PromptLoaderArgs) THEN "TypeError"
    ELSE IF ~CallOK(GroqHandlerParams, GroqHandlerArgs) THEN "TypeError"
    ELSE IF ConfigMissing(e.apiKey) THEN "ValueError"
    ELSE IF ~CallOK(ResumeAnalyzerParams, ResumeAnalyzerArgs) THEN "TypeError"
    ELSE "none"

\* analyze_resume as a function of the deployment
AnalyzeOutcome(e, text) ==
    LET p == GetPrompt(e.prompts, "resume_analysis", Selection)
    IN IF p.raised THEN [raised |-> TRUE, text |-> <<>>]
       ELSE IF ~e.reply.received THEN [raised |-> TRUE, text |-> <<>>]
       ELSE IF e.reply.choices = <<>> \/ e.reply.choices[1].content.none
            THEN [raised |-> TRUE, text |-> <<>>]
       ELSE [raised |-> FALSE, text |-> ContentStrip(e.reply.choices[1].content.value)]

\* an exception raised inside the try block reaches line 61
Raise(q, at, what) == [q EXCEPT !.pc = "except", !.raisedAt = at, !.exc = what]

\* line 41: Analyze pressed with a file uploaded; lines 42-44
Analyze(r) ==
    /\ r \in active
    /\ req[r].pc \in {"idle", "done", "crashed"}
    /\ req[r].runs < MaxRuns
    /\ \E n \in UploadNames, d \in UploadDocs :
        req' = [req EXCEPT ![r] =
                    [NewRequest EXCEPT !.pc = "write", !.name = n, !.doc = d,
                                       !.ext = FileExtension(n),
                                       !.runs = req[r].runs + 1]]
    /\ UNCHANGED <<active, env, fs, interference>>
    /\ UNCHANGED NotMain

\* lines 46-47: open(temp_path, "wb") creates or truncates the file, write
\* fills it; either may raise
WriteTemp(r) ==
    /\ r \in active
    /\ req[r].pc = "write"
    /\ LET path == TempPath(req[r].ext)
           hit == IF fs[path].exists /\ fs[path].owner # r THEN {"overwrite"} ELSE {}
       IN \/ /\ req' = [req EXCEPT ![r] = Raise(@, "open", "OSError")]
             /\ UNCHANGED <<fs, interference>>
          \/ /\ fs' = [fs EXCEPT ![path] = Present(r, EmptyDoc)]
             /\ interference' = interference \cup hit
             /\ req' = [req EXCEPT ![r] = Raise(@, "write", "OSError")]
          \/ /\ fs' = [fs EXCEPT ![path] = Present(r, req[r].doc)]
             /\ interference' = interference \cup hit
             /\ req' = [req EXCEPT ![r].pc = "construct_tp"]
    /\ UNCHANGED <<active, env>>
    /\ UNCHANGED NotMain

\* lines 48-60: the rest of the try block, one statement at a time
TryBody(r) ==
    /\ r \in active
    /\ req[r].pc \in {"construct_tp", "extract", "remove", "branch", "construct_clients",
                      "analyze", "display", "no_text"}
    /\ LET q == req[r]
           path == TempPath(q.ext)
       IN CASE q.pc = "construct_tp" ->
                \* line 48: TextProcessor(loggers["text_processor"])
                /\ req' = [req EXCEPT ![r] =
                            IF CallOK(TextProcessorParams, TextProcessorArgs)
                            THEN [q EXCEPT !.pc = "extract"]
                            ELSE Raise(q, "construct_tp", "TypeError")]
                /\ UNCHANGED <<fs, interference>>
            [] q.pc = "extract" ->
                \* line 49
                /\ LET o == ExtractOutcome(FileOf(fs[path]), q.ext)
                   IN req' = [req EXCEPT ![r] =
                                IF o.raised THEN Raise(q, "extract", "Exception")
                                ELSE [q EXCEPT !.pc = "remove", !.extracted = Some(o.text)]]
                /\ UNCHANGED <<fs, interference>>
            [] q.pc = "remove" ->
                \* line 50: os.remove(temp_path)
                IF fs[path].exists
                THEN /\ fs' = [fs EXCEPT ![path] = Absent]
                     /\ interference' =
                            interference \cup (IF fs[path].owner # r THEN {"delete"} ELSE {})
                     /\ req' = [req EXCEPT ![r].pc = "branch"]
                ELSE /\ req' = [req EXCEPT ![r] = Raise(q, "remove", "FileNotFoundError")]
                     /\ UNCHANGED <<fs, interference>>
            [] q.pc = "branch" ->
                \* line 51: if extracted_text
                /\ req' = [req EXCEPT ![r].pc =
                            IF q.extracted.value # <<>> THEN "construct_clients" ELSE "no_text"]
                /\ UNCHANGED <<fs, interference>>
            [] q.pc = "construct_clients" ->
                \* lines 52-53
                /\ req' = [req EXCEPT ![r] =
                            IF ConstructClientsError(env) = "none"
                            THEN [q EXCEPT !.pc = "analyze"]
                            ELSE Raise(q, "construct_clients", ConstructClientsError(env))]
                /\ UNCHANGED <<fs, interference>>
            [] q.pc = "analyze" ->
                \* lines 54-55
                /\ LET o == AnalyzeOutcome(env, q.extracted.value)
                   IN req' = [req EXCEPT ![r] =
                                IF o.raised THEN Raise(q, "analyze", "Exception")
                                ELSE [q EXCEPT !.pc = "display", !.shown = Some(o.text)]]
                /\ UNCHANGED <<fs, interference>>
            [] q.pc = "display" ->
                \* lines 56-57
                /\ req' = [req EXCEPT ![r].pc = "done"]
                /\ UNCHANGED <<fs, interference>>
            [] q.pc = "no_text" ->
                \* lines 59-60
                /\ req' = [req EXCEPT ![r].pc = "done", ![r].error = <<"Could not extract text.">>]
                /\ UNCHANGED <<fs, interference>>
    /\ UNCHANGED <<active, env>>
    /\ UNCHANGED NotMain

\* lines 61-63: the error is logged and rendered
ExceptRender(r) ==
    /\ r \in active
    /\ req[r].pc = "except"
    /\ req' = [req EXCEPT ![r].pc = "except_exists",
                          ![r].error = <<"Error processing resume: ", req[r].exc>>]
    /\ UNCHANGED <<active, env, fs, interference>>
    /\ UNCHANGED NotMain

\* line 64: if os.path.exists(temp_path)
ExceptExists(r) ==
    /\ r \in active
    /\ req[r].pc = "except_exists"
    /\ req' = [req EXCEPT ![r].pc =
                IF fs[TempPath(req[r].ext)].exists THEN "except_remove" ELSE "done"]
    /\ UNCHANGED <<active, env, fs, interference>>
    /\ UNCHANGED NotMain

CleanupKeepsFile(f, path) == f

\* the effect of line 65 on the working directory
CleanupRemoves(f, path) == [f EXCEPT ![path] = Absent]

\* line 65: os.remove(temp_path); FileNotFoundError, raised inside the
\* handler, leaves main()
ExceptRemove(r) ==
    /\ r \in active
    /\ req[r].pc = "except_remove"
    /\ LET path == TempPath(req[r].ext)
       IN IF fs[path].exists
          THEN /\ fs' = CleanupRemoves(fs, path)
               /\ interference' =
                    interference \cup (IF fs[path].owner # r THEN {"delete"} ELSE {})
               /\ req' = [req EXCEPT ![r].pc = "done"]
          ELSE /\ req' = [req EXCEPT ![r].pc = "crashed"]
               /\ UNCHANGED <<fs, interference>>
    /\ UNCHANGED <<active, env>>
    /\ UNCHANGED NotMain

MNext ==
    \E r \in Sessions :
        \/ Analyze(r)
        \/ WriteTemp(r)
        \/ TryBody(r)
        \/ ExceptRender(r)
        \/ ExceptExists(r)
        \/ ExceptRemove(r)

\* one session
SpecMain == MInitFor({1}, Envs) /\ [][MNext]_vars
\* every session at once, on a deployment with a credential and the template
GoodEnvs == {e \in Envs : ~ConfigMissing(e.apiKey) /\ "resume_analysis" \in DOMAIN e.prompts}
SpecConc == MInitFor(Sessions, GoodEnvs) /\ [][MNext]_vars

\* ---- properties of the request handler

MFinished(r) == req[r].pc \in {"done", "crashed"}

\* C1: a request in which Analyze was pressed with a file ends with its temp
\* file temp_resume.<ext> absent, whichever step raised, and with an error
\* message rendered when a step raised.
C1_TempFileRemoved ==
    \A r \in active :
        MFinished(r) =>
            /\ ~fs[TempPath(req[r].ext)].exists
            /\ req[r].raisedAt # "none" => req[r].error # <<>>

\* the temp file was written, a later step raised, and the request is over
C1_Witness ==
    /\ req[1].pc = "done"
    /\ req[1].raisedAt = "construct_tp"
    /\ req[1].error # <<>>

\* the upload is a well-formed document of the kind its name says, with text
\* in it; the deployment has a credential and the template, and the API
\* answers with a completion; the temp file could be written
GoodRequest(r) ==
    /\ req[r].doc = TextDoc(req[r].ext)
    /\ req[r].raisedAt \notin {"open", "write"}
    /\ ~ConfigMissing(env.apiKey)
    /\ "resume_analysis" \in DOMAIN env.prompts
    /\ env.reply = Response(<<Choice(Some(Completion))>>)

\* C8: a request with a supported upload holding text, a valid credential, a
\* well-formed prompt file and an API that returns a completion ends with
\* that completion displayed as the analysis, and not in the error branch.
C8_DisplaysCompletion ==
    \A r \in active :
        (MFinished(r) /\ GoodRequest(r)) =>
            /\ req[r].shown = Some(Strip(Completion))
            /\ req[r].error = <<>>

\* C9: concurrent requests are independent: no request overwrites or deletes
\* the temp file of another, and each ends as it would when run alone (with
\* its result or error rendered, main() returning normally).
C9_Independent ==
    /\ interference = {}
    /\ \A r \in active : req[r].pc # "crashed"

\* main() as written never gets past line 48
MainStopsAtTextProcessor ==
    \A r \in active :
        /\ req[r].pc \notin {"extract", "remove", "branch", "construct_clients",
                             "analyze", "display", "no_text"}
        /\ req[r].extracted.none
        /\ req[r].shown.none

====
